---- MODULE Spec2Model ----
(***************************************************************************)
(* Model of barcodes.py: the inventory barcode sheet generator.            *)
(*                                                                         *)
(* main() loads (serial, device_name) rows from an SQLite table, writes    *)
(* one Code-128 PNG per row into a scratch directory, lays the rows out    *)
(* in a two-column table and builds one PDF.                               *)
(*                                                                         *)
(* Text is modelled as a sequence of one-character strings, so that the    *)
(* per-character filename sanitisation is computed rather than assumed.    *)
(* A path is a sequence of tokens (a directory name, "/", characters,      *)
(* an extension).                                                          *)
(***************************************************************************)
EXTENDS Integers, Sequences, FiniteSets, TLC

\* ------------------------------------------------------------------ bounds
MaxRows == 3          \* rows in the laptops table
MaxSerialLen == 3     \* characters of a serial handed to generate_temp_barcode

\* ----------------------------------------------------------- configuration
DB_FILE == "inventaris.sqlite"
PDF_FILENAME == "inventaris_barcodes.pdf"
TEMP_IMG_DIR == <<"temp_barcodes">>

\* ------------------------------------------------------------- characters
\* Characters for which Python's str.isalnum() is true: ASCII letters and
\* digits, and also non-ASCII letters such as "é".
AlnumAscii == {"A", "1", "N", "o", "n", "e"}
AlnumOther == {"é"}
Punct == {"-", "_", "/"}
Chars == {"A", "1", "é", "-", "_", "/"}

isalnum(c) == c \in AlnumAscii \cup AlnumOther

\* The characters Code128 accepts (python-barcode checks the payload against
\* its Code-128 character tables: ASCII only).
code128_ALL == AlnumAscii \cup Punct

\* ------------------------------------------------------------ database values
\* A column value as pandas hands it over: None for SQL NULL, else text.
SqlNull == [t |-> "null", s |-> <<>>]
SqlText(s) == [t |-> "text", s |-> s]

\* device_name values are kept as whole strings (they are never split).
NameNull == [t |-> "null", s |-> ""]
NameText(s) == [t |-> "text", s |-> s]

\* str(serial): text is itself, None prints as "None".
str(v) == IF v.t = "null" THEN <<"N", "o", "n", "e">> ELSE v.s

\* Python truthiness of a device_name value: None and "" are falsy.
truthy(v) == v.t = "text" /\ v.s # ""

\* All texts of 1..n characters over Chars.
TextsUpTo(n) == UNION {[1..k -> Chars] : k \in 1..n}

SerialSamples ==
    { SqlNull, SqlText(<<>>), SqlText(<<"A", "1">>),
      SqlText(<<"A", "-", "1">>), SqlText(<<"A", "_", "1">>),
      SqlText(<<"é">>) }
NameSamples == { NameNull, NameText(""), NameText("PC") }
TableRows == [serial : SerialSamples, device_name : NameSamples]
Tables == UNION {[1..k -> TableRows] : k \in 0..MaxRows}
OutDirs == {TEMP_IMG_DIR, <<"out", "/">>}

VARIABLES
    db,          \* the database file: [exists, has_table, rows]
    pc,          \* position of the process
    conn,        \* the sqlite connection: "none", "open", "closed"
    df,          \* the DataFrame get_data_from_db returned
    idx,         \* 1-based position of iterrows()
    row,         \* create_pdf's row
    table_data,  \* create_pdf's table_data
    arg,         \* arguments of the latest generate_temp_barcode call
    img_path,    \* value returned by the latest generate_temp_barcode call
    dir,         \* scratch directory: "absent", "preexisting", "created"
    files,       \* files in the scratch directory: set of <<path, payload>>
    pdf,         \* the output document: [state, table]
    out,         \* lines printed
    calls,       \* history of external operations, in order
    raised,      \* history of exceptions raised: set of [type, at, k]
    exc          \* the exception propagating out of main, or "none"

vars == <<db, pc, conn, df, idx, row, table_data, arg, img_path, dir, files,
          pdf, out, calls, raised, exc>>

Msg(text, n, s) == [text |-> text, n |-> n, s |-> s]
Call(op, k) == [op |-> op, k |-> k]
NoArg == [serial |-> SqlNull, outdir |-> <<>>]
NoPdf == [state |-> "absent", table |-> <<>>]

Init ==
    /\ db \in {[exists |-> FALSE, has_table |-> FALSE, rows |-> <<>>],
               [exists |-> TRUE, has_table |-> FALSE, rows |-> <<>>]}
              \cup {[exists |-> TRUE, has_table |-> TRUE, rows |-> r] : r \in Tables}
    /\ pc = "main"
    /\ conn = "none"
    /\ df = <<>>
    /\ idx = 0
    /\ row = <<>>
    /\ table_data = <<>>
    /\ arg = NoArg
    /\ img_path = <<>>
    /\ dir \in {"absent", "preexisting"}
    /\ files = {}
    /\ pdf = NoPdf
    /\ out = <<>>
    /\ calls = <<>>
    /\ raised = {}
    /\ exc = "none"

\* ---------------------------------------------------------- get_data_from_db
\* The WHERE clause: serial IS NOT NULL AND serial != ''.
Qualifies(r) == r.serial.t # "null" /\ r.serial.s # <<>>

read_sql_query(rows) == SelectSeq(rows, Qualifies)

\* Lines 22-24: the file is absent; report it and return an empty DataFrame.
DbNotFound ==
    /\ pc = "main"
    /\ ~db.exists
    /\ out' = Append(out, Msg("Database niet gevonden", 0, DB_FILE))
    /\ df' = <<>>
    /\ pc' = "main_df"
    /\ UNCHANGED <<db, conn, idx, row, table_data, arg, img_path, dir, files,
                   pdf, calls, raised, exc>>

\* Line 26: sqlite3.connect.
Connect ==
    /\ pc = "main"
    /\ db.exists
    /\ conn' = "open"
    /\ calls' = Append(calls, Call("connect", 0))
    /\ pc' = "connected"
    /\ UNCHANGED <<db, df, idx, row, table_data, arg, img_path, dir, files,
                   pdf, out, raised, exc>>

\* Line 29: the query succeeds.
QueryOk ==
    /\ pc = "connected"
    /\ db.has_table
    /\ df' = read_sql_query(db.rows)
    /\ calls' = Append(calls, Call("query", 0))
    /\ pc' = "queried"
    /\ UNCHANGED <<db, conn, idx, row, table_data, arg, img_path, dir, files,
                   pdf, out, raised, exc>>

\* Line 29: the query raises (no table laptops); nothing in get_data_from_db
\* or main catches it, and line 30 is skipped.
QueryFail ==
    /\ pc = "connected"
    /\ ~db.has_table
    /\ calls' = Append(calls, Call("query", 0))
    /\ raised' = raised \cup {[type |-> "DatabaseError", at |-> "query", k |-> 0]}
    /\ exc' = "DatabaseError"
    /\ pc' = "aborted"
    /\ UNCHANGED <<db, conn, df, idx, row, table_data, arg, img_path, dir,
                   files, pdf, out>>

\* Variant of CloseReturn: returns the DataFrame with the connection left open.
ReturnWithoutClose ==
    /\ pc = "queried"
    /\ pc' = "main_df"
    /\ UNCHANGED <<db, conn, df, idx, row, table_data, arg, img_path, dir,
                   files, pdf, out, calls, raised, exc>>

\* Lines 30-31: close the connection and return the DataFrame.
CloseReturn ==
    /\ pc = "queried"
    /\ conn' = "closed"
    /\ calls' = Append(calls, Call("close", 0))
    /\ pc' = "main_df"
    /\ UNCHANGED <<db, df, idx, row, table_data, arg, img_path, dir, files,
                   pdf, out, raised, exc>>

\* ------------------------------------------------------------------ main
\* Variant of df_empty: tests for a missing DataFrame, which never happens.
df_is_none(d) == FALSE

\* DataFrame.empty: no rows.
df_empty(d) == Len(d) = 0

\* Lines 143-149, empty branch: report and return.
MainNoData ==
    /\ pc = "main_df"
    /\ df_empty(df)
    /\ out' = out \o <<Msg("Records gevonden", Len(df), ""),
                       Msg("Geen data om te verwerken", 0, "")>>
    /\ pc' = "done"
    /\ UNCHANGED <<db, conn, df, idx, row, table_data, arg, img_path, dir,
                   files, pdf, calls, raised, exc>>

\* Lines 143-147, non-empty branch: call create_pdf(df).
MainCreatePdf ==
    /\ pc = "main_df"
    /\ ~df_empty(df)
    /\ out' = Append(out, Msg("Records gevonden", Len(df), ""))
    /\ pc' = "create_pdf"
    /\ UNCHANGED <<db, conn, df, idx, row, table_data, arg, img_path, dir,
                   files, pdf, calls, raised, exc>>

\* ------------------------------------------------------ generate_temp_barcode
\* "".join(parts): concatenation of the parts, left to right.
RECURSIVE join(_)
join(parts) == IF parts = <<>> THEN <<>> ELSE Head(parts) \o join(Tail(parts))

\* Variant of safe_sn: other characters are removed rather than replaced.
safe_sn_strip(serial) ==
    LET s == str(serial)
    IN join([i \in 1..Len(s) |-> IF isalnum(s[i]) THEN <<s[i]>> ELSE <<>>])

\* Line 36: each character kept when alphanumeric, else replaced by '_'.
safe_sn(serial) ==
    LET s == str(serial)
    IN join([i \in 1..Len(s) |-> IF isalnum(s[i]) THEN <<s[i]>> ELSE <<"_">>])

\* os.path.join(a, b) for POSIX paths.
os_path_join(a, b) ==
    IF b # <<>> /\ b[1] = "/" THEN b
    ELSE IF a = <<>> \/ a[Len(a)] = "/" THEN a \o b
    ELSE a \o <<"/">> \o b

\* Line 37.
file_path(serial, outdir) == os_path_join(outdir, safe_sn(serial))

\* Line 49: Code128(str(serial)) raises IllegalCharacterError when a character
\* is outside the Code-128 tables.
Code128_ok(serial) == \A i \in 1..Len(str(serial)) : str(serial)[i] \in code128_ALL

\* Line 50: ImageWriter saves to file_path + ".png" and returns that name.
saved_path(serial, outdir) == file_path(serial, outdir) \o <<".png">>

\* Writing a file replaces whatever was stored under the same path.
write_file(fs, path, payload) == {f \in fs : f[1] # path} \cup {<<path, payload>>}

\* ------------------------------------------------------------- create_pdf
\* Lines 54-80: document setup, scratch directory, empty table_data and row.
makedirs(d) == IF d = "absent" THEN "created" ELSE d

CreatePdfSetup ==
    /\ pc = "create_pdf"
    /\ out' = Append(out, Msg("PDF genereren", 0, PDF_FILENAME))
    /\ dir' = makedirs(dir)
    /\ calls' = Append(calls, Call("makedirs", 0))
    /\ table_data' = <<>>
    /\ row' = <<>>
    /\ idx' = 1
    /\ pc' = "loop"
    /\ UNCHANGED <<db, conn, df, arg, img_path, files, pdf, raised, exc>>

PLACEHOLDER == "Onbekend device"

\* Variant of d_name: only None gets the placeholder, "" is kept.
d_name_none_only(item) ==
    IF item.device_name.t # "null" THEN item.device_name.s ELSE PLACEHOLDER

\* Line 84.
d_name(item) == IF truthy(item.device_name) THEN item.device_name.s ELSE PLACEHOLDER

\* Lines 91-93: the image flowable (sizes in mm); the file is read at build.
Image(path) == [filename |-> path, drawHeight |-> 25, drawWidth |-> 50]

\* Line 96: the label paragraph.
Paragraph(name) == [markup |-> <<"<b>", name, "</b>">>, style |-> "DeviceName"]

\* Line 99.
cell_content(path, item) == <<Image(path), Paragraph(d_name(item))>>

EmptyCell == <<>>

\* Variant of row_append: the new cell goes in front.
row_prepend(r, cell) == <<cell>> \o r

\* Line 101.
row_append(r, cell) == Append(r, cell)

\* Lines 82-106, one iteration whose barcode is encoded and saved.
LoopBody ==
    /\ pc = "loop"
    /\ idx <= Len(df)
    /\ LET item == df[idx]
           serial == item.serial
           path == saved_path(serial, TEMP_IMG_DIR)
           r == row_append(row, cell_content(path, item))
       IN /\ Code128_ok(serial)
          /\ arg' = [serial |-> serial, outdir |-> TEMP_IMG_DIR]
          /\ calls' = Append(calls, Call("generate", idx))
          /\ files' = write_file(files, path, str(serial))
          /\ img_path' = path
          /\ IF Len(r) = 2
             THEN table_data' = Append(table_data, r) /\ row' = <<>>
             ELSE table_data' = table_data /\ row' = r
    /\ idx' = idx + 1
    /\ UNCHANGED <<db, pc, conn, df, dir, pdf, out, raised, exc>>

\* Variant of LoopEncodeFail: a per-record guard that skips the record.
LoopEncodeSkip ==
    /\ pc = "loop"
    /\ idx <= Len(df)
    /\ ~Code128_ok(df[idx].serial)
    /\ arg' = [serial |-> df[idx].serial, outdir |-> TEMP_IMG_DIR]
    /\ calls' = Append(calls, Call("generate", idx))
    /\ raised' = raised \cup {[type |-> "IllegalCharacterError", at |-> "encode", k |-> idx]}
    /\ idx' = idx + 1
    /\ UNCHANGED <<db, pc, conn, df, row, table_data, img_path, dir, files,
                   pdf, out, exc>>

\* Lines 82-87 with line 49 raising: nothing in generate_temp_barcode,
\* create_pdf or main catches the error.
LoopEncodeFail ==
    /\ pc = "loop"
    /\ idx <= Len(df)
    /\ ~Code128_ok(df[idx].serial)
    /\ arg' = [serial |-> df[idx].serial, outdir |-> TEMP_IMG_DIR]
    /\ calls' = Append(calls, Call("generate", idx))
    /\ raised' = raised \cup {[type |-> "IllegalCharacterError", at |-> "encode", k |-> idx]}
    /\ exc' = "IllegalCharacterError"
    /\ pc' = "aborted"
    /\ UNCHANGED <<db, conn, df, idx, row, table_data, img_path, dir, files,
                   pdf, out>>

\* Variant of pad_last_row: the odd last row is discarded.
pad_last_row_drop(td, r) == td

\* Lines 109-111.
pad_last_row(td, r) == IF r # <<>> THEN Append(td, Append(r, EmptyCell)) ELSE td

\* Lines 108-129: the loop is over; pad the odd row and make the Table.
FinishGrid ==
    /\ pc = "loop"
    /\ idx > Len(df)
    /\ table_data' = pad_last_row(table_data, row)
    /\ pc' = "build"
    /\ UNCHANGED <<db, conn, df, idx, row, arg, img_path, dir, files, pdf,
                   out, calls, raised, exc>>

\* Lines 132-134: doc.build succeeds.
BuildOk ==
    /\ pc = "build"
    /\ calls' = Append(calls, Call("build", 0))
    /\ pdf' = [state |-> "complete", table |-> table_data]
    /\ out' = Append(out, Msg("Succes! PDF staat in", 0, PDF_FILENAME))
    /\ pc' = "done"
    /\ UNCHANGED <<db, conn, df, idx, row, table_data, arg, img_path, dir,
                   files, raised, exc>>

BuildErrors == {"OSError", "LayoutError"}

\* Variant of BuildFail: the exception is not caught.
BuildFailUncaught ==
    /\ pc = "build"
    /\ \E e \in BuildErrors :
        /\ raised' = raised \cup {[type |-> e, at |-> "build", k |-> 0]}
        /\ exc' = e
    /\ \E p \in {pdf, [state |-> "partial", table |-> <<>>]} : pdf' = p
    /\ calls' = Append(calls, Call("build", 0))
    /\ pc' = "aborted"
    /\ UNCHANGED <<db, conn, df, idx, row, table_data, arg, img_path, dir,
                   files, out>>

\* Lines 132-136: doc.build raises an Exception; it is printed and swallowed.
\* The file is left as it was or partially written.
BuildFail ==
    /\ pc = "build"
    /\ \E e \in BuildErrors :
        /\ raised' = raised \cup {[type |-> e, at |-> "build", k |-> 0]}
        /\ out' = Append(out, Msg("Fout bij maken PDF", 0, e))
    /\ \E p \in {pdf, [state |-> "partial", table |-> <<>>]} : pdf' = p
    /\ calls' = Append(calls, Call("build", 0))
    /\ pc' = "done"
    /\ UNCHANGED <<db, conn, df, idx, row, table_data, arg, img_path, dir,
                   files, exc>>

Next ==
    \/ DbNotFound
    \/ Connect
    \/ QueryOk
    \/ QueryFail
    \/ CloseReturn
    \/ MainNoData
    \/ MainCreatePdf
    \/ CreatePdfSetup
    \/ LoopBody
    \/ LoopEncodeFail
    \/ FinishGrid
    \/ BuildOk
    \/ BuildFail

Spec == Init /\ [][Next]_vars

\* ----------------------------------------- generate_temp_barcode on its own
\* The function called once with any serial of up to MaxSerialLen characters
\* (or None) and either output directory.
SanInit ==
    /\ db = [exists |-> FALSE, has_table |-> FALSE, rows |-> <<>>]
    /\ pc = "gen_call"
    /\ conn = "none"
    /\ df = <<>>
    /\ idx = 0
    /\ row = <<>>
    /\ table_data = <<>>
    /\ arg \in [serial : {SqlNull} \cup {SqlText(s) : s \in TextsUpTo(MaxSerialLen)},
                outdir : OutDirs]
    /\ img_path = <<>>
    /\ dir = "preexisting"
    /\ files = {}
    /\ pdf = NoPdf
    /\ out = <<>>
    /\ calls = <<>>
    /\ raised = {}
    /\ exc = "none"

\* Lines 33-51: the barcode is encoded, saved, and its path returned.
GenCall ==
    /\ pc = "gen_call"
    /\ Code128_ok(arg.serial)
    /\ files' = write_file(files, saved_path(arg.serial, arg.outdir), str(arg.serial))
    /\ img_path' = saved_path(arg.serial, arg.outdir)
    /\ calls' = Append(calls, Call("generate", 0))
    /\ pc' = "gen_ret"
    /\ UNCHANGED <<db, conn, df, idx, row, table_data, arg, dir, pdf, out,
                   raised, exc>>

\* Lines 33-49: Code128 rejects the payload; nothing is saved.
GenCallRaise ==
    /\ pc = "gen_call"
    /\ ~Code128_ok(arg.serial)
    /\ calls' = Append(calls, Call("generate", 0))
    /\ raised' = raised \cup {[type |-> "IllegalCharacterError", at |-> "encode", k |-> 0]}
    /\ exc' = "IllegalCharacterError"
    /\ pc' = "aborted"
    /\ UNCHANGED <<db, conn, df, idx, row, table_data, arg, img_path, dir,
                   files, pdf, out>>

SanNext ==
    \/ GenCall
    \/ GenCallRaise

SanSpec == SanInit /\ [][SanNext]_vars

\* ================================================================ properties
Range(f) == {f[i] : i \in DOMAIN f}
IsGenerate(c) == c.op = "generate"
Generated == SelectSeq(calls, IsGenerate)
OpsBefore(i) == {calls[j].op : j \in 1..(i - 1)}

\* The grid has been handed to Table (line 116).
GridPassed == pc = "build" \/ (pc = "done" /\ Len(df) > 0)

\* The grid slot of the k-th record (1-based): row floor((k-1)/2)+1,
\* column ((k-1) mod 2)+1.
Slot(k) == table_data[((k - 1) \div 2) + 1][((k - 1) % 2) + 1]
Label(cell) == cell[2].markup[2]

\* C1: for N >= 1 records the grid handed to the table has ceil(N/2) rows,
\* every row has exactly 2 slots, and a slot is the empty cell exactly when it
\* is the last slot of the last row and N is odd.
C1_GridShape ==
    GridPassed =>
        LET N == Len(df)
        IN /\ N >= 1
           /\ Len(table_data) = (N + 1) \div 2
           /\ \A r \in 1..Len(table_data) :
                /\ Len(table_data[r]) = 2
                /\ \A c \in 1..2 :
                     (table_data[r][c] = EmptyCell)
                        <=> (N % 2 = 1 /\ r = Len(table_data) /\ c = 2)

C1_Witness == pc = "build" /\ Len(df) = 3 /\ Len(table_data) = 2

\* C2: the grid keeps the record order: the slot of the k-th record holds the
\* image path and the label made from that record, and every filled slot is
\* the slot of some record (none dropped, duplicated or reordered).
C2_GridOrder ==
    GridPassed =>
        /\ \A k \in 1..Len(df) :
             /\ Len(Slot(k)) = 2
             /\ Slot(k)[1].filename = saved_path(df[k].serial, TEMP_IMG_DIR)
             /\ Label(Slot(k)) = d_name(df[k])
        /\ \A r \in 1..Len(table_data) : \A c \in 1..Len(table_data[r]) :
             table_data[r][c] # EmptyCell => 2 * (r - 1) + c <= Len(df)
        /\ 2 * Len(table_data) <= Len(df) + 1

C2_Witness ==
    /\ pc = "build"
    /\ Len(df) = 3
    /\ df[1].serial # df[2].serial
    /\ df[1].device_name # df[3].device_name

\* C3: when get_data_from_db has returned an empty result, create_pdf is never
\* called: no scratch directory, no barcode, no document, no exception; and
\* when the file was absent no connection was opened and the fact was printed.
C3_EmptyNoPdf ==
    (pc \notin {"main", "connected", "queried"} /\ exc # "DatabaseError" /\ Len(df) = 0) =>
        /\ pc \in {"main_df", "done"}
        /\ \A i \in 1..Len(calls) : calls[i].op \notin {"makedirs", "generate", "build"}
        /\ pdf = NoPdf
        /\ dir # "created"
        /\ files = {}
        /\ raised = {}
        /\ exc = "none"
        /\ ~db.exists =>
             /\ conn = "none"
             /\ calls = <<>>
             /\ out[1] = Msg("Database niet gevonden", 0, DB_FILE)
        /\ pc = "done" => out[Len(out)] = Msg("Geen data om te verwerken", 0, "")

C3_Witness ==
    /\ pc = "done"
    /\ db.has_table
    /\ Len(db.rows) = 2
    /\ df = <<>>
    /\ conn = "closed"

\* C4 (as claimed): after create_pdf has processed N rows whose serials are
\* non-empty and pairwise different, the scratch directory holds N generated
\* images and each image is referenced by exactly one grid cell.
C4_OneImagePerRow ==
    (GridPassed /\ \A j, k \in 1..Len(df) : j # k => df[j].serial # df[k].serial) =>
        /\ Cardinality(files) = Len(df)
        /\ \A f \in files :
             Cardinality({k \in 1..Len(df) : Slot(k)[1].filename = f[1]}) = 1

C6_SanitizedName ==
    pc = "gen_ret" =>
        LET s == str(arg.serial)
            prefix == IF arg.outdir[Len(arg.outdir)] = "/"
                      THEN arg.outdir ELSE arg.outdir \o <<"/">>
            base == SubSeq(img_path, Len(prefix) + 1, Len(img_path) - 1)
        IN /\ SubSeq(img_path, 1, Len(prefix)) = prefix
           /\ img_path[Len(img_path)] = ".png"
           /\ Len(base) = Len(s)
           /\ \A i \in 1..Len(s) :
                /\ isalnum(s[i]) => base[i] = s[i]
                /\ ~isalnum(s[i]) => base[i] = "_"
                /\ isalnum(base[i]) \/ base[i] = "_"
           /\ <<img_path, s>> \in files

C6_Witness ==
    /\ pc = "gen_ret"
    /\ Len(str(arg.serial)) = 3
    /\ \E i \in 1..3 : ~isalnum(str(arg.serial)[i]) /\ str(arg.serial)[i] # "_"
    /\ \E i \in 1..3 : isalnum(str(arg.serial)[i])

\* C7: an exception raised by doc.build is caught and printed with its cause;
\* it does not propagate, the success line is not printed, and the process
\* ends normally.
C7_BuildFailureCaught ==
    \A e \in raised :
        e.at = "build" =>
            /\ pc = "done"
            /\ exc = "none"
            /\ Msg("Fout bij maken PDF", 0, e.type) \in Range(out)
            /\ Msg("Succes! PDF staat in", 0, PDF_FILENAME) \notin Range(out)

C7_Witness == (\E e \in raised : e.at = "build") /\ pdf.state = "partial"

\* C8: when encoding fails for record k the error leaves main uncaught: no
\* record after k is processed, doc.build is never called, no document is
\* written, and the image files saved for the records before k are still in
\* the scratch directory (the failure removes nothing); none is saved for k.
C8_EncodeFailureAborts ==
    \A e \in raised :
        e.at = "encode" =>
            /\ pc = "aborted"
            /\ exc = "IllegalCharacterError"
            /\ idx = e.k
            /\ \A i \in 1..Len(calls) :
                 /\ calls[i].op # "build"
                 /\ calls[i].op = "generate" => calls[i].k <= e.k
            /\ pdf = NoPdf
            /\ dir # "absent"
            /\ \A j \in 1..(e.k - 1) :
                 \E f \in files : f[1] = saved_path(df[j].serial, TEMP_IMG_DIR)
            /\ \A f \in files : f[2] # str(df[e.k].serial)

C8_Witness ==
    /\ \E e \in raised : e.at = "encode" /\ e.k = 2
    /\ Len(df) = 3
    /\ files # {}

\* C9: the connection is opened, queried and closed before the first barcode
\* call; the scratch directory is made before it; barcode calls are made one
\* per record in record order; doc.build is called at most once, and only
\* after the call for the last record.
C9_StrictSequence ==
    /\ \A i \in 1..Len(Generated) : Generated[i].k = i
    /\ Len(Generated) <= Len(df)
    /\ Len(Generated) > 0 => conn = "closed" /\ dir # "absent"
    /\ \A i \in 1..Len(calls) :
         /\ calls[i].op = "generate" =>
              /\ {"connect", "query", "close", "makedirs"} \subseteq OpsBefore(i)
         /\ calls[i].op = "query" => "connect" \in OpsBefore(i)
         /\ calls[i].op = "close" => "query" \in OpsBefore(i)
         /\ calls[i].op \in {"connect", "query", "close"} =>
              OpsBefore(i) \cap {"makedirs", "generate", "build", calls[i].op} = {}
         /\ calls[i].op = "build" =>
              /\ i = Len(calls)
              /\ "build" \notin OpsBefore(i)
              /\ Len(Generated) = Len(df)
    /\ pc = "done" /\ Len(df) > 0 => calls[Len(calls)].op = "build"

C9_Witness ==
    /\ pc = "done"
    /\ pdf.state = "complete"
    /\ Len(df) = 3
    /\ Len(calls) = 8

\* C10 (as claimed): once control has left get_data_from_db, on any path, the
\* connection it opened is closed.
C10_ConnectionReleased ==
    pc \notin {"connected", "queried"} => conn # "open"
====
